---- MODULE Spec2Model ----
(***************************************************************************)
(* Model of package cl (src/cl/compile.go): the nested-scope symbol table  *)
(* (blockCtx / fileCtx), the declaration loader (loadFile and friends),    *)
(* the compilation worklist (pkgCtx.use / pkgCtx.resolveFuncs) and the     *)
(* package assembler (NewPackage).                                         *)
(*                                                                         *)
(* A blockCtx is an entry of the sequence `blocks` (entry 1 is the global  *)
(* blockCtx made by newGblBlockCtx); a fileCtx is an entry of `files` (its *)
(* imports map).  A nil pointer is 0.  Go maps are TLA+ functions whose    *)
(* DOMAIN is the set of keys present.                                      *)
(***************************************************************************)
EXTENDS Integers, Sequences, FiniteSets, TLC

\* ---------------------------------------------------------------- bounds
MaxFiles == 2       \* files of one package
MaxDecls == 3       \* declarations of one package (over all its files)
MaxCalls == 2       \* call sites of one package (over all its bodies)
MaxUse == 2         \* direct calls of use() by the scheduler's client
MaxBlocks == 2      \* blockCtx values made by newBlockCtx
MaxOps == 6         \* scope operations of one run of the scope client
CountCap == 2       \* the counters of the history saturate here (2 = "twice or more")

\* ------------------------------------------------------------ identifiers
FuncNames == {"main", "f", "g"}
TypeNames == {"T", "f"}
MethodNames == {"m", "n"}
VarNames == {"x", "y", "f"}
\* Names of the top-level var and const declarations of a file.
ValueNames == {"main"}
Nil == 0
GBL == 1            \* index of the global blockCtx in blocks

\* An import path is its sequence of segments ("lib/f" is <<"lib","f">>).
ImportPaths == {<<"lib", "f">>, <<"main">>, <<"x", "T">>}
\* The written alias of an ImportSpec; "" is spec.Name == nil.
ImportAliases == {"", "_", ".", "g"}

\* The error values of lines 16-31; "nil" is the nil error.
ErrNotFound == "ErrNotFound"
ErrMainFuncNotFound == "ErrMainFuncNotFound"
ErrSymbolNotVariable == "ErrSymbolNotVariable"
ErrSymbolNotFunc == "ErrSymbolNotFunc"
ErrSymbolNotType == "ErrSymbolNotType"

VARIABLES
    pc,         \* position of the run: "load", "drain", "sched", "done", "error", "panic"
    pkgName,    \* pkg.Name
    blocks,     \* the blockCtx values: [parent, file, vlist, syms]
    files,      \* the fileCtx values: their imports maps
    usedfns,    \* pkgCtx.usedfns: names of the funcDecls awaiting compile()
    NestDepth,  \* out.NestDepth of the exec.Builder
    ndecls,     \* declarations of the package processed so far
    ret,        \* what NewPackage returned: [vlist, syms, err]
    nuse,       \* history: calls of use(f), per function
    napp,       \* history: appends of f to usedfns, per function
    nlow,       \* history: lowerings of the body of f, per function
    tdecls,     \* history: names of the TypeSpecs given to loadType
    vdecls,     \* history: names of the ValueSpecs given to loadVar
    decl,       \* history: <<b, name, kind>> of every declare operation that succeeded
    nops,       \* history: operations a client of the scope chain or the worklist performed
    fatal       \* history: the operation that panicked, <<op, blockCtx, name>>

vars == <<pc, pkgName, blocks, files, usedfns, NestDepth, ndecls, ret,
          nuse, napp, nlow, tdecls, vdecls, decl, nops, fatal>>

\* ------------------------------------------------------------- symbols
\* path.Base of an import path: its last segment ("." for the empty path).
Base(pkgPath) == IF Len(pkgPath) = 0 THEN "." ELSE pkgPath[Len(pkgPath)]

EmptyMap == [x \in {} |-> Nil]

Put(map, k, v) == [x \in DOMAIN map \cup {k} |-> IF x = k THEN v ELSE map[x]]

Inc(n) == IF n < CountCap THEN n + 1 ELSE CountCap

\* newFuncDecl(name, typ, body, ctx): a funcDecl not yet used.
newFuncDecl(name, body, file) ==
    [kind |-> "func", name |-> name, body |-> body, file |-> file, used |-> FALSE]

\* &methodDecl{recv, pointer, typ, body, file}
newMethodDecl(pointer, file) == [pointer |-> pointer, file |-> file]

\* new(typeDecl): no methods, not an alias.  `declared` tells the typeDecl of
\* a type's own declaration from the one insertMethod makes up.
newTypeDecl == [kind |-> "type", Alias |-> FALSE, Methods |-> EmptyMap, declared |-> FALSE]

\* exec.NewVar(typ, name) followed by SetAddr(depth, idx)
NewVar(name, depth, idx) == [kind |-> "var", name |-> name, depth |-> depth, idx |-> idx]

\* A pkgPath found in an imports map, as find returns it.
ImportSym(pkgPath) == [kind |-> "import", path |-> pkgPath]

\* newGblBlockCtx(pkg, nil)
newGblBlockCtx == [parent |-> Nil, file |-> Nil, vlist |-> <<>>, syms |-> EmptyMap]

\* newBlockCtx(file): a child of the global blockCtx, owned by file.
newBlockCtx(file) == [parent |-> GBL, file |-> file, vlist |-> <<>>, syms |-> EmptyMap]

\* ---------------------------------------------------------- scope chain
\* blockCtx.exists: "panic" is the nil dereference of p.file.
exists(blks, fls, b, name) ==
    IF name \in DOMAIN blks[b].syms THEN "true"
    ELSE IF blks[b].parent = Nil
         THEN IF blks[b].file = Nil THEN "panic"
              ELSE IF name \in DOMAIN fls[blks[b].file] THEN "true" ELSE "false"
         ELSE "false"

RECURSIVE findSymsOuter(_, _, _)
\* findSyms searching from the global blockCtx inwards.
findSymsOuter(blks, b, name) ==
    IF b = Nil THEN Nil
    ELSE LET up == findSymsOuter(blks, blks[b].parent, name) IN
         IF up # Nil THEN up
         ELSE IF name \in DOMAIN blks[b].syms THEN b ELSE Nil

RECURSIVE findSyms(_, _, _)
\* The loop of blockCtx.find: the innermost blockCtx from b outwards that binds name, or Nil.
findSyms(blks, b, name) ==
    IF b = Nil THEN Nil
    ELSE IF name \in DOMAIN blks[b].syms THEN b
    ELSE findSyms(blks, blks[b].parent, name)

\* find falling back to the imports of every file of the package.
findAnyFile(blks, fls, b, name) ==
    LET at == findSyms(blks, b, name)
        in == {fl \in 1..Len(fls) : name \in DOMAIN fls[fl]}
    IN  IF at # Nil THEN [ok |-> "true", sym |-> blks[at].syms[name]]
        ELSE IF blks[b].file = Nil THEN [ok |-> "panic", sym |-> Nil]
        ELSE IF in # {}
             THEN [ok |-> "true", sym |-> ImportSym(fls[CHOOSE fl \in in : TRUE][name])]
             ELSE [ok |-> "false", sym |-> Nil]

\* blockCtx.find: [ok, sym]; ok = "panic" is the nil dereference of ctx.file.
find(blks, fls, b, name) ==
    LET at == findSyms(blks, b, name) IN
    IF at # Nil THEN [ok |-> "true", sym |-> blks[at].syms[name]]
    ELSE IF blks[b].file = Nil THEN [ok |-> "panic", sym |-> Nil]
    ELSE IF name \in DOMAIN fls[blks[b].file]
         THEN [ok |-> "true", sym |-> ImportSym(fls[blks[b].file][name])]
         ELSE [ok |-> "false", sym |-> Nil]

\* The typed lookups: [err, sym]; err = "panic" when find panics.
findKind(blks, fls, b, name, kind, errKind) ==
    LET r == find(blks, fls, b, name) IN
    IF r.ok = "panic" THEN [err |-> "panic", sym |-> Nil]
    ELSE IF r.ok = "false" THEN [err |-> ErrNotFound, sym |-> Nil]
    ELSE IF r.sym.kind = kind THEN [err |-> "nil", sym |-> r.sym]
    ELSE [err |-> errKind, sym |-> Nil]

findType(blks, fls, b, name) == findKind(blks, fls, b, name, "type", ErrSymbolNotType)

findFunc(blks, fls, b, name) == findKind(blks, fls, b, name, "func", ErrSymbolNotFunc)

findVar(blks, fls, b, name) == findKind(blks, fls, b, name, "var", ErrSymbolNotVariable)

\* The declare operations return the new blocks, or Panic.
Panic == "panic"

\* insertVar taking the slot index from the size of the symbol map.
insertVarSymIdx(blks, fls, depth, b, name) ==
    IF exists(blks, fls, b, name) # "false" THEN Panic
    ELSE LET v == NewVar(name, depth, Cardinality(DOMAIN blks[b].syms)) IN
         [blks EXCEPT ![b].syms = Put(@, name, v), ![b].vlist = Append(@, v)]

\* blockCtx.insertVar
insertVar(blks, fls, depth, b, name) ==
    IF exists(blks, fls, b, name) # "false" THEN Panic
    ELSE LET v == NewVar(name, depth, Len(blks[b].vlist)) IN
         [blks EXCEPT ![b].syms = Put(@, name, v), ![b].vlist = Append(@, v)]

\* insertFunc without the check of exists.
insertFuncNoCheck(blks, fls, b, name, fun) == [blks EXCEPT ![b].syms = Put(@, name, fun)]

\* blockCtx.insertFunc
insertFunc(blks, fls, b, name, fun) ==
    IF exists(blks, fls, b, name) # "false" THEN Panic
    ELSE [blks EXCEPT ![b].syms = Put(@, name, fun)]

\* insertMethod without the check that the method is new.
insertMethodOverwrite(blks, fls, b, typeName, methodName, method) ==
    IF blks[b].parent # Nil THEN Panic
    ELSE LET r == findType(blks, fls, b, typeName)
             typ == IF r.err = ErrNotFound THEN newTypeDecl ELSE r.sym
         IN  IF r.err \notin {ErrNotFound, "nil"} THEN Panic
             ELSE IF typ.Alias THEN Panic
             ELSE [blks EXCEPT ![b].syms =
                      Put(@, typeName, [typ EXCEPT !.Methods = Put(@, methodName, method)])]

\* blockCtx.insertMethod
insertMethod(blks, fls, b, typeName, methodName, method) ==
    IF blks[b].parent # Nil THEN Panic
    ELSE LET r == findType(blks, fls, b, typeName)
             typ == IF r.err = ErrNotFound THEN newTypeDecl ELSE r.sym
         IN  IF r.err \notin {ErrNotFound, "nil"} THEN Panic
             ELSE IF typ.Alias THEN Panic
             ELSE IF methodName \in DOMAIN typ.Methods THEN Panic
             ELSE [blks EXCEPT ![b].syms =
                      Put(@, typeName, [typ EXCEPT !.Methods = Put(@, methodName, method)])]

\* ------------------------------------------------------------ scheduler
\* The funcDecl named f (funcDecls live in the symbol map of the global blockCtx).
FuncOf(blks, f) == blks[GBL].syms[f]

IsFunc(blks, f) == f \in DOMAIN blks[GBL].syms /\ blks[GBL].syms[f].kind = "func"

\* use without the check of f.used.
useNoCheck(s, f) ==
    [s EXCEPT !.usedfns = Append(@, f),
              !.blocks[GBL].syms[f].used = TRUE,
              !.nuse[f] = Inc(@),
              !.napp[f] = Inc(@)]

\* use appending f without marking it used.
useNoMark(s, f) ==
    IF FuncOf(s.blocks, f).used
    THEN [s EXCEPT !.nuse[f] = Inc(@)]
    ELSE [s EXCEPT !.usedfns = Append(@, f),
                   !.nuse[f] = Inc(@),
                   !.napp[f] = Inc(@)]

\* pkgCtx.use on the state s = [blocks, usedfns, nuse, napp, nlow].
use(s, f) ==
    IF FuncOf(s.blocks, f).used
    THEN [s EXCEPT !.nuse[f] = Inc(@)]
    ELSE [s EXCEPT !.usedfns = Append(@, f),
                   !.blocks[GBL].syms[f].used = TRUE,
                   !.nuse[f] = Inc(@),
                   !.napp[f] = Inc(@)]

\* popFunc reading the first funcDecl while cutting off the last.
popFuncHead(fns) == [f |-> fns[1], rest |-> SubSeq(fns, 1, Len(fns) - 1)]

\* popFunc taking the funcDecl that has waited longest.
popFuncFirst(fns) == [f |-> fns[1], rest |-> Tail(fns)]

\* The step of resolveFuncs that takes the next funcDecl off usedfns (lines 62-63).
popFunc(fns) == [f |-> fns[Len(fns)], rest |-> SubSeq(fns, 1, Len(fns) - 1)]

\* The element of a one-element set.
The(S) == CHOOSE x \in S : TRUE

\* One call site: a callee that resolves to a funcDecl from blockCtx b is marked used.
lowerCall(s, fls, b, callee) ==
    LET r == findFunc(s.blocks, fls, b, callee) IN
    IF r.err = "nil" /\ IsFunc(s.blocks, r.sym.name) THEN use(s, r.sym.name) ELSE s

RECURSIVE lowerCalls(_, _, _, _)
\* The call sites of a body, in order.
lowerCalls(s, fls, b, body) ==
    IF body = <<>> THEN s
    ELSE The({lowerCalls(s1, fls, b, Tail(body)) : s1 \in {lowerCall(s, fls, b, Head(body))}})

\* compileBlockStmt(ctx, body) on the global blockCtx: the body of f is lowered once more.
compileBlockStmt(s, fls, f, body) ==
    The({[s1 EXCEPT !.nlow[f] = Inc(@)] : s1 \in {lowerCalls(s, fls, GBL, body)}})

\* funcDecl.compile: the body is lowered in a blockCtx of its own, made by
\* newBlockCtx(f.file) and left when the body ends.
compile(s, fls, f) ==
    LET fun == FuncOf(s.blocks, f)
        inner == Len(s.blocks) + 1
        s0 == [s EXCEPT !.blocks = Append(@, newBlockCtx(fun.file))]
    IN  The({[s1 EXCEPT !.blocks = SubSeq(@, 1, inner - 1), !.nlow[f] = Inc(@)] :
                s1 \in {lowerCalls(s0, fls, inner, fun.body)}})

\* The state record the scheduler works on, and its parts.
Sched == [blocks |-> blocks, usedfns |-> usedfns, nuse |-> nuse, napp |-> napp, nlow |-> nlow]

SetSched(s) ==
    /\ blocks' = s.blocks
    /\ usedfns' = s.usedfns
    /\ nuse' = s.nuse
    /\ napp' = s.napp
    /\ nlow' = s.nlow

\* --------------------------------------------------------------- loader
\* Call sites of the funcDecls loaded so far.
RECURSIVE SumCalls(_, _)
SumCalls(syms, names) ==
    IF names = {} THEN 0
    ELSE LET n == CHOOSE x \in names : TRUE IN
         (IF syms[n].kind = "func" THEN Len(syms[n].body) ELSE 0) + SumCalls(syms, names \ {n})

TotalCalls == SumCalls(blocks[GBL].syms, DOMAIN blocks[GBL].syms)

\* Bodies: sequences of call sites.
Bodies(n) == UNION {[1..k -> FuncNames] : k \in 0..n}

\* log.Panicln / panic: the run is aborted where it stands.
Abort(op, b, name) ==
    /\ pc' = "panic"
    /\ fatal' = <<op, b, name>>
    /\ UNCHANGED <<pkgName, blocks, files, usedfns, NestDepth, ret, nuse, napp, nlow, tdecls, vdecls, decl>>

\* A declare operation's outcome becomes the state; it bound name in blockCtx b.
Declare(op, res, b, name, kind) ==
    IF res = Panic THEN Abort(op, b, name)
    ELSE /\ blocks' = res
         /\ decl' = decl \cup {<<b, name, kind>>}
         /\ UNCHANGED <<pc, pkgName, files, usedfns, NestDepth, ret,
                        nuse, napp, nlow, tdecls, vdecls, fatal>>

Loading == pc = "load" /\ blocks[GBL].file # Nil /\ ndecls < MaxDecls

\* loadFile, lines 247-248: the file's fileCtx becomes the file of the global blockCtx.
BeginFile ==
    /\ pc = "load"
    /\ Len(files) < MaxFiles
    /\ files' = Append(files, EmptyMap)
    /\ blocks' = [blocks EXCEPT ![GBL].file = Len(files) + 1]
    /\ UNCHANGED <<pc, pkgName, usedfns, NestDepth, ndecls, ret, nuse, napp, nlow, tdecls, vdecls, decl, nops, fatal>>

\* loadFile on the only file of a package.
OpenFile == files = <<>> /\ BeginFile

\* loadFunc on the FuncDecl of name, without receiver.
LoadFuncDecl(name, body) ==
    /\ Loading
    /\ TotalCalls + Len(body) <= MaxCalls
    /\ ndecls' = ndecls + 1
    /\ UNCHANGED nops
    /\ IF name = "init" THEN Abort("loadFunc", GBL, name)
       ELSE Declare("insertFunc", insertFunc(blocks, files, GBL, name,
                               newFuncDecl(name, body, blocks[GBL].file)), GBL, name, "func")

LoadFunc(names, maxBody) == \E name \in names, body \in Bodies(maxBody) : LoadFuncDecl(name, body)

\* loadFunc on a FuncDecl with a receiver of type typeName.
LoadMethodDecl(typeName, methodName, pointer) ==
    /\ Loading
    /\ ndecls' = ndecls + 1
    /\ UNCHANGED nops
    /\ Declare("insertMethod", insertMethod(blocks, files, GBL, typeName, methodName,
                                            newMethodDecl(pointer, blocks[GBL].file)),
               GBL, typeName, "type")

LoadMethod ==
    \E typeName \in TypeNames, methodName \in MethodNames, pointer \in BOOLEAN :
        LoadMethodDecl(typeName, methodName, pointer)

\* loadImport: the imports map of file fl after the ImportSpec, or Panic.
loadImport(fls, fl, alias, pkgPath) ==
    LET name == IF alias # "" THEN alias ELSE Base(pkgPath) IN
    IF alias \in {"_", "."} THEN Panic
    ELSE [fls EXCEPT ![fl] = Put(@, name, pkgPath)]

\* The outcome of loadImport becomes the state.
Import(alias, pkgPath) ==
    LET res == loadImport(files, blocks[GBL].file, alias, pkgPath) IN
    IF res = Panic THEN Abort("loadImport", GBL, alias)
    ELSE /\ files' = res
         /\ UNCHANGED <<pc, pkgName, blocks, usedfns, NestDepth, ret,
                        nuse, napp, nlow, tdecls, vdecls, decl, fatal>>

\* loadImports / loadImport on one ImportSpec.
LoadImport(aliases, paths) ==
    /\ Loading
    /\ ndecls' = ndecls + 1
    /\ UNCHANGED nops
    /\ \E alias \in aliases, pkgPath \in paths : Import(alias, pkgPath)

\* loadTypes / loadType on one TypeSpec: nothing is declared.
LoadType ==
    /\ Loading
    /\ \E name \in TypeNames :
          /\ ndecls' = ndecls + 1
          /\ tdecls' = tdecls \cup {name}
          /\ UNCHANGED <<pc, pkgName, blocks, files, usedfns, NestDepth, ret,
                         nuse, napp, nlow, vdecls, decl, nops, fatal>>

\* loadConsts, and loadVars / loadVar on one ValueSpec of name: nothing is declared.
LoadValue ==
    /\ Loading
    /\ \E name \in ValueNames :
          /\ ndecls' = ndecls + 1
          /\ vdecls' = vdecls \cup {name}
          /\ UNCHANGED <<pc, pkgName, blocks, files, usedfns, NestDepth, ret,
                         nuse, napp, nlow, tdecls, decl, nops, fatal>>

\* loadFile on a declaration it does not know (lines 264 and 267).
LoadUnknown ==
    /\ Loading
    /\ ndecls' = ndecls + 1
    /\ UNCHANGED nops
    /\ Abort("loadFile", GBL, "")

\* -------------------------------------------------------------- NewPackage
NoPackage == [vlist |-> <<>>, syms |-> EmptyMap, err |-> "none"]

\* Return handing out the package scope as built so far, whatever err is.
ReturnScope(vlist, syms, err) ==
    ret' = [vlist |-> blocks[GBL].vlist, syms |-> blocks[GBL].syms, err |-> err]

\* NewPackage returns p and err.
Return(vlist, syms, err) == ret' = [vlist |-> vlist, syms |-> syms, err |-> err]

\* EnterMain looking for main and lowering it in a package of any name.
EnterMainAnyPackage ==
    /\ pc = "load"
    /\ UNCHANGED <<pkgName, files, NestDepth, ndecls, tdecls, vdecls, decl, nops>>
    /\ IF pkgName # "main" /\ ~IsFunc(blocks, "main")
       THEN /\ pc' = "done"
            /\ Return(blocks[GBL].vlist, blocks[GBL].syms, "nil")
            /\ UNCHANGED <<blocks, usedfns, nuse, napp, nlow, fatal>>
       ELSE LET entry == findFunc(blocks, files, GBL, "main") IN
            IF entry.err = "panic"
            THEN /\ pc' = "panic"
                 /\ fatal' = <<"find", GBL, "main">>
                 /\ UNCHANGED <<blocks, usedfns, ret, nuse, napp, nlow>>
            ELSE IF entry.err # "nil"
            THEN /\ pc' = "error"
                 /\ Return(<<>>, EmptyMap,
                           IF entry.err = ErrNotFound THEN ErrMainFuncNotFound ELSE entry.err)
                 /\ UNCHANGED <<blocks, usedfns, nuse, napp, nlow, fatal>>
            ELSE /\ pc' = "drain"
                 /\ \E s1 \in {compileBlockStmt([Sched EXCEPT !.blocks[GBL].file = entry.sym.file],
                                                  files, "main", entry.sym.body)} : SetSched(s1)
                 /\ UNCHANGED <<ret, fatal>>

\* EnterMain lowering main with the global blockCtx left on the file loaded last.
EnterMainLastFile ==
    /\ pc = "load"
    /\ UNCHANGED <<pkgName, files, NestDepth, ndecls, tdecls, vdecls, decl, nops>>
    /\ IF pkgName # "main"
       THEN /\ pc' = "done"
            /\ Return(blocks[GBL].vlist, blocks[GBL].syms, "nil")
            /\ UNCHANGED <<blocks, usedfns, nuse, napp, nlow, fatal>>
       ELSE LET entry == findFunc(blocks, files, GBL, "main") IN
            IF entry.err = "panic"
            THEN /\ pc' = "panic"
                 /\ fatal' = <<"find", GBL, "main">>
                 /\ UNCHANGED <<blocks, usedfns, ret, nuse, napp, nlow>>
            ELSE IF entry.err # "nil"
            THEN /\ pc' = "error"
                 /\ Return(<<>>, EmptyMap,
                           IF entry.err = ErrNotFound THEN ErrMainFuncNotFound ELSE entry.err)
                 /\ UNCHANGED <<blocks, usedfns, nuse, napp, nlow, fatal>>
            ELSE /\ pc' = "drain"
                 /\ \E s1 \in {compileBlockStmt(Sched, files, "main", entry.sym.body)} :
                       SetSched(s1)
                 /\ UNCHANGED <<ret, fatal>>

\* NewPackage, lines 224-233 and, for a package that is not "main", 236-238.
EnterMain ==
    /\ pc = "load"
    /\ UNCHANGED <<pkgName, files, NestDepth, ndecls, tdecls, vdecls, decl, nops>>
    /\ IF pkgName # "main"
       THEN /\ pc' = "done"
            /\ Return(blocks[GBL].vlist, blocks[GBL].syms, "nil")
            /\ UNCHANGED <<blocks, usedfns, nuse, napp, nlow, fatal>>
       ELSE LET entry == findFunc(blocks, files, GBL, "main") IN
            IF entry.err = "panic"
            THEN /\ pc' = "panic"
                 /\ fatal' = <<"find", GBL, "main">>
                 /\ UNCHANGED <<blocks, usedfns, ret, nuse, napp, nlow>>
            ELSE IF entry.err # "nil"
            THEN /\ pc' = "error"
                 /\ Return(<<>>, EmptyMap,
                           IF entry.err = ErrNotFound THEN ErrMainFuncNotFound ELSE entry.err)
                 /\ UNCHANGED <<blocks, usedfns, nuse, napp, nlow, fatal>>
            ELSE /\ pc' = "drain"
                 /\ \E s1 \in {compileBlockStmt([Sched EXCEPT !.blocks[GBL].file = entry.sym.file],
                                                  files, "main", entry.sym.body)} : SetSched(s1)
                 /\ UNCHANGED <<ret, fatal>>

\* ResolveStep clearing f.used of the funcDecl it takes off usedfns.
ResolveStepClears(at) ==
    /\ pc = at
    /\ Len(usedfns) > 0
    /\ \E p \in {popFunc(usedfns)} :
          \E s1 \in {compile([Sched EXCEPT !.usedfns = p.rest], files, p.f)} :
              SetSched([s1 EXCEPT !.blocks[GBL].syms[p.f].used = FALSE])
    /\ UNCHANGED <<pc, pkgName, files, NestDepth, ndecls, ret, tdecls, vdecls, decl, nops, fatal>>

\* resolveFuncs, one turn of its loop with usedfns not empty (lines 62-64).
ResolveStep(at) ==
    /\ pc = at
    /\ Len(usedfns) > 0
    /\ \E p \in {popFunc(usedfns)} :
          \E s1 \in {compile([Sched EXCEPT !.usedfns = p.rest], files, p.f)} : SetSched(s1)
    /\ UNCHANGED <<pc, pkgName, files, NestDepth, ndecls, ret, tdecls, vdecls, decl, nops, fatal>>

\* resolveFuncs leaves its loop (line 60) and NewPackage returns (lines 236-238).
Finish ==
    /\ pc = "drain"
    /\ Len(usedfns) = 0
    /\ pc' = "done"
    /\ Return(blocks[GBL].vlist, blocks[GBL].syms, "nil")
    /\ UNCHANGED <<pkgName, blocks, files, usedfns, NestDepth, ndecls,
                   nuse, napp, nlow, tdecls, vdecls, decl, nops, fatal>>

\* ------------------------------------------------- clients of the worklist
\* The loaded package is handed to a client that marks functions used and drains.
StartClient ==
    /\ pc = "load"
    /\ pc' = "sched"
    /\ UNCHANGED <<pkgName, blocks, files, usedfns, NestDepth, ndecls, ret,
                   nuse, napp, nlow, tdecls, vdecls, decl, nops, fatal>>

\* The client calls use(f) on a loaded funcDecl.
ClientUse ==
    /\ pc = "sched"
    /\ nops < MaxUse
    /\ \E f \in FuncNames :
          /\ IsFunc(blocks, f)
          /\ \E s1 \in {use(Sched, f)} : SetSched(s1)
    /\ nops' = nops + 1
    /\ UNCHANGED <<pc, pkgName, files, NestDepth, ndecls, ret, tdecls, vdecls, decl, fatal>>

\* ---------------------------------------------- clients of the scope chain
ScopeOp == pc = "load" /\ blocks[GBL].file # Nil /\ nops < MaxOps

\* newBlockCtx(file) for the file being compiled.
NewBlock ==
    /\ ScopeOp
    /\ Len(blocks) < 1 + MaxBlocks
    /\ nops' = nops + 1
    /\ blocks' = Append(blocks, newBlockCtx(blocks[GBL].file))
    /\ UNCHANGED <<pc, pkgName, files, usedfns, NestDepth, ndecls, ret,
                   nuse, napp, nlow, tdecls, vdecls, decl, fatal>>

\* loadImport on an ImportSpec of the file.
OpImport ==
    /\ ScopeOp
    /\ nops' = nops + 1
    /\ UNCHANGED ndecls
    /\ Import("", <<"lib", "f">>)

\* b.insertVar(name, typ)
InsertVarAt(b, name) ==
    /\ ScopeOp
    /\ nops' = nops + 1
    /\ UNCHANGED ndecls
    /\ Declare("insertVar", insertVar(blocks, files, NestDepth, b, name), b, name, "var")

OpInsertVar == \E b \in 1..Len(blocks), name \in VarNames : InsertVarAt(b, name)

\* b.insertFunc(name, fun)
InsertFuncAt(b, name) ==
    /\ ScopeOp
    /\ nops' = nops + 1
    /\ UNCHANGED ndecls
    /\ Declare("insertFunc",
               insertFunc(blocks, files, b, name, newFuncDecl(name, <<>>, blocks[b].file)),
               b, name, "func")

OpInsertFunc == \E b \in 1..Len(blocks), name \in VarNames : InsertFuncAt(b, name)

\* b.insertMethod(typeName, methodName, method)
InsertMethodAt(b, typeName, methodName) ==
    /\ ScopeOp
    /\ nops' = nops + 1
    /\ UNCHANGED ndecls
    /\ Declare("insertMethod",
               insertMethod(blocks, files, b, typeName, methodName,
                            newMethodDecl(FALSE, blocks[b].file)), b, typeName, "type")

OpInsertMethod == \E b \in 1..Len(blocks) : InsertMethodAt(b, "T", "m")

\* The exec.Builder enters or leaves a nested function: out.NestDepth changes.
BuilderNest ==
    /\ ScopeOp
    /\ nops' = nops + 1
    /\ NestDepth' = 1 - NestDepth
    /\ UNCHANGED <<pc, pkgName, blocks, files, usedfns, ndecls, ret,
                   nuse, napp, nlow, tdecls, vdecls, decl, fatal>>

\* ------------------------------------------------------------ specification
ZeroCount == [f \in FuncNames |-> 0]

\* NewPackage, lines 218-220: an empty global blockCtx, nothing loaded.
Init ==
    /\ pc = "load"
    /\ pkgName \in {"main", "lib"}
    /\ blocks = <<newGblBlockCtx>>
    /\ files = <<>>
    /\ usedfns = <<>>
    /\ NestDepth = 0
    /\ ndecls = 0
    /\ ret = NoPackage
    /\ nuse = ZeroCount
    /\ napp = ZeroCount
    /\ nlow = ZeroCount
    /\ tdecls = {}
    /\ vdecls = {}
    /\ decl = {}
    /\ nops = 0
    /\ fatal = <<>>

\* NewPackage on a package of functions, imports and value declarations.
Next ==
    \/ BeginFile
    \/ LoadFunc(FuncNames, MaxCalls)
    \/ LoadImport({""}, {<<"lib", "f">>, <<"main">>})
    \/ LoadValue
    \/ EnterMain
    \/ ResolveStep("drain")
    \/ Finish

Spec == Init /\ [][Next]_vars

\* NewPackage on a package of one file of functions, where resolveFuncs keeps
\* running and NewPackage returns after it.
NextLive ==
    \/ OpenFile
    \/ LoadFunc(FuncNames, MaxCalls)
    \/ EnterMain
    \/ ResolveStep("drain")
    \/ Finish

LiveSpec == Init /\ [][NextLive]_vars /\ WF_vars(ResolveStep("drain")) /\ WF_vars(Finish)

\* The loader on every kind of declaration.
NextLoad ==
    \/ BeginFile
    \/ LoadFunc({"f", "T", "init"}, 0)
    \/ LoadMethod
    \/ LoadImport(ImportAliases, ImportPaths)
    \/ LoadType
    \/ LoadValue
    \/ LoadUnknown

SpecLoad == Init /\ [][NextLoad]_vars

\* The worklist under a client that calls use() and resolveFuncs() as it likes.
NextSched ==
    \/ OpenFile
    \/ LoadFunc(FuncNames, MaxCalls)
    \/ StartClient
    \/ ClientUse
    \/ ResolveStep("sched")

SpecSched == Init /\ [][NextSched]_vars

\* The scope chain under a client that opens blocks and declares names as it likes.
NextScope ==
    \/ OpenFile
    \/ OpImport
    \/ NewBlock
    \/ OpInsertVar
    \/ OpInsertFunc
    \/ OpInsertMethod
    \/ BuilderNest

SpecScope == Init /\ [][NextScope]_vars

\* ------------------------------------------------------------------ claims
Range(seq) == {seq[i] : i \in DOMAIN seq}

\* The loaded functions that the body of f calls.
Callees(f) == {g \in Range(FuncOf(blocks, f).body) : IsFunc(blocks, g)}

RECURSIVE Reach(_)
\* The functions reachable in the call graph from those of S.
Reach(S) ==
    LET S1 == S \cup UNION {Callees(f) : f \in S} IN
    IF S1 = S THEN S ELSE Reach(S1)

Finished == pc = "done" /\ pkgName = "main"

\* C1: when NewPackage has returned for package "main", every function reachable
\* from main, main included, has had its body lowered exactly once, and no
\* function's body was ever lowered twice.
EachReachableLoweredOnce ==
    /\ \A f \in FuncNames : nlow[f] <= 1
    /\ Finished => \A f \in Reach({"main"}) : nlow[f] = 1

\* C2: however often use(f) is called, and however the calls interleave with
\* the turns of resolveFuncs, f is appended to usedfns exactly once and, when
\* the worklist has been drained, its body has been lowered exactly once.
UseAppendsOnce ==
    \A f \in FuncNames :
        /\ napp[f] <= 1
        /\ nuse[f] >= 1 => napp[f] = 1
        /\ nlow[f] <= napp[f]
        /\ (pc = "sched" /\ usedfns = <<>> /\ nuse[f] >= 1) => nlow[f] = 1

\* use(f) was called twice or more and the drained worklist lowered f once.
UseAppendsOnceWitness ==
    /\ pc = "sched"
    /\ usedfns = <<>>
    /\ \E f \in FuncNames : nuse[f] >= 2 /\ napp[f] = 1 /\ nlow[f] = 1

\* C3: resolveFuncs terminates for every call graph, and when it has, usedfns
\* is empty and every function that was appended to it has been lowered.
DrainTerminates ==
    (pc = "drain") ~> (/\ pc = "done"
                       /\ usedfns = <<>>
                       /\ \A f \in FuncNames : napp[f] >= 1 => nlow[f] >= 1)

\* NewPackage returned for a package in which two functions call each other,
\* and both were lowered.
DrainTerminatesWitness ==
    /\ Finished
    /\ \E f \in FuncNames, g \in FuncNames :
          /\ f # g
          /\ IsFunc(blocks, f) /\ IsFunc(blocks, g)
          /\ g \in Callees(f) /\ f \in Callees(g)
          /\ nlow[f] >= 1 /\ nlow[g] >= 1

\* C4: no step of a run resets the used flag of a funcDecl.
UsedMonotone ==
    [][\A f \in FuncNames :
          (IsFunc(blocks, f) /\ FuncOf(blocks, f).used)
              => (IsFunc(blocks', f) /\ FuncOf(blocks', f).used)]_vars

\* A function was marked used and lowered, and is still marked when NewPackage returns.
UsedMonotoneWitness ==
    /\ Finished
    /\ \E f \in FuncNames : IsFunc(blocks, f) /\ FuncOf(blocks, f).used /\ nlow[f] >= 1

\* C5: a name that a declare operation bound in a blockCtx is reported by
\* exists on that blockCtx in every later state, and a second insertVar or
\* insertFunc of it panics and leaves every symbol map and variable list as it was.
DeclaredStays ==
    /\ [](\A d \in decl : d[1] <= Len(blocks) /\ exists(blocks, files, d[1], d[2]) = "true")
    /\ [][\A b \in 1..Len(blocks), n \in VarNames :
            ((\E k \in {"var", "func", "type"} : <<b, n, k>> \in decl)
                 /\ (InsertVarAt(b, n) \/ InsertFuncAt(b, n)))
            => (pc' = "panic" /\ blocks' = blocks)]_vars

\* An insertVar or insertFunc panicked on a name declared before in the same blockCtx.
DeclaredStaysWitness ==
    /\ pc = "panic"
    /\ Len(fatal) = 3
    /\ fatal[1] \in {"insertVar", "insertFunc"}
    /\ \E k \in {"var", "func", "type"} : <<fatal[2], fatal[3], k>> \in decl

\* C6: for a name bound in the global blockCtx and in a blockCtx inside it, find
\* from the inner one gives the inner binding and find from the global one the
\* outer binding; declaring the name in the inner blockCtx, where it is not yet
\* bound, succeeds and leaves the global blockCtx as it was.
Shadowing ==
    /\ [](\A b \in 2..Len(blocks) :
            \A n \in DOMAIN blocks[b].syms \cap DOMAIN blocks[GBL].syms :
                /\ find(blocks, files, b, n) = [ok |-> "true", sym |-> blocks[b].syms[n]]
                /\ find(blocks, files, GBL, n) = [ok |-> "true", sym |-> blocks[GBL].syms[n]])
    /\ [][\A b \in 2..Len(blocks), n \in VarNames :
            (n \in DOMAIN blocks[GBL].syms /\ n \notin DOMAIN blocks[b].syms /\ InsertVarAt(b, n))
            => (/\ pc' = "load"
                /\ n \in DOMAIN blocks'[b].syms
                /\ blocks'[GBL] = blocks[GBL])]_vars

\* A name is bound to one symbol in the global blockCtx and to another in an inner one.
ShadowingWitness ==
    \E b \in 2..Len(blocks) :
        \E n \in DOMAIN blocks[b].syms \cap DOMAIN blocks[GBL].syms :
            /\ blocks[b].syms[n] # blocks[GBL].syms[n]
            /\ blocks[b].syms[n].kind = "var"

\* The file being loaded, and the functions declared in file fl.
CurFile == blocks[GBL].file

FuncsOfFile(fl) ==
    {f \in DOMAIN blocks[GBL].syms :
        blocks[GBL].syms[f].kind = "func" /\ blocks[GBL].syms[f].file = fl}

\* C7: while a file B is loaded, a name bound only by an import of another file A
\* is not found by find, not reported by exists and may be declared as a function,
\* and every function declared in A is found from B.
ImportIsolation ==
    (pc = "load" /\ CurFile # Nil) =>
        \A A \in (1..Len(files)) \ {CurFile} :
            /\ \A n \in DOMAIN files[A] :
                  (n \notin DOMAIN files[CurFile] /\ n \notin DOMAIN blocks[GBL].syms)
                  => /\ find(blocks, files, GBL, n).ok = "false"
                     /\ exists(blocks, files, GBL, n) = "false"
                     /\ insertFunc(blocks, files, GBL, n, newFuncDecl(n, <<>>, CurFile)) # Panic
            /\ \A f \in FuncsOfFile(A) :
                  find(blocks, files, GBL, f) = [ok |-> "true", sym |-> blocks[GBL].syms[f]]

\* File 2 declared a function under a name that file 1 imports, and sees a function of file 1.
ImportIsolationWitness ==
    /\ pc = "load"
    /\ CurFile = 2
    /\ FuncsOfFile(1) # {}
    /\ \E n \in DOMAIN files[1] : n \in FuncsOfFile(2)

\* The variables that insertVar declared in blockCtx b.
VarsDeclared(b) == {d \in decl : d[1] = b /\ d[3] = "var"}

\* C8: in every blockCtx the k-th variable declared (k from 0) has slot index k,
\* whatever functions, methods and imports were declared in between and whatever
\* was declared in other blockCtxs.
SlotOrder ==
    \A b \in 1..Len(blocks) :
        /\ Len(blocks[b].vlist) = Cardinality(VarsDeclared(b))
        /\ \A k \in 1..Len(blocks[b].vlist) :
              /\ blocks[b].vlist[k].idx = k - 1
              /\ blocks[b].syms[blocks[b].vlist[k].name] = blocks[b].vlist[k]

\* A blockCtx holds three variables and a symbol that is not a variable, and
\* another blockCtx holds a variable too.
SlotOrderWitness ==
    \E b \in 1..Len(blocks) :
        /\ Len(blocks[b].vlist) = 3
        /\ Cardinality(DOMAIN blocks[b].syms) = 4
        /\ \E c \in (1..Len(blocks)) \ {b} : Len(blocks[c].vlist) = 1

\* Type typeName is declared and has the method methodName.
HasMethod(blks, typeName, methodName) ==
    /\ typeName \in DOMAIN blks[GBL].syms
    /\ blks[GBL].syms[typeName].kind = "type"
    /\ methodName \in DOMAIN blks[GBL].syms[typeName].Methods

\* C9: a method declaration for a (type, method) pair that is registered panics
\* and changes nothing, a registered method stays as it is, and a method name is
\* accepted on a type that does not have it, whichever other types have it.
MethodOnce ==
    /\ [][\A t \in TypeNames, m \in MethodNames, ptr \in BOOLEAN :
            LoadMethodDecl(t, m, ptr) =>
                IF HasMethod(blocks, t, m)
                THEN pc' = "panic" /\ blocks' = blocks
                ELSE (findType(blocks, files, GBL, t).err \in {"nil", ErrNotFound})
                     => (/\ pc' = "load"
                         /\ HasMethod(blocks', t, m)
                         /\ blocks'[GBL].syms[t].Methods[m] = newMethodDecl(ptr, CurFile))]_vars
    /\ [][\A t \in TypeNames, m \in MethodNames :
            HasMethod(blocks, t, m) =>
                (/\ HasMethod(blocks', t, m)
                 /\ blocks'[GBL].syms[t].Methods[m] = blocks[GBL].syms[t].Methods[m])]_vars

\* Two types have a method of the same name, and declaring it a second time on one
\* of them panicked.
MethodOnceWitness ==
    /\ pc = "panic"
    /\ Len(fatal) = 3
    /\ fatal[1] = "insertMethod"
    /\ \E m \in MethodNames : \A t \in TypeNames : HasMethod(blocks, t, m)

\* C10: once a type's own declaration and a method declaration on it are both
\* loaded, in either order, the type name is bound to one Type symbol that holds
\* the method and is the symbol of the type's own declaration.
PlaceholderUnified ==
    \A t \in tdecls :
        <<GBL, t, "type">> \in decl =>
            /\ t \in DOMAIN blocks[GBL].syms
            /\ blocks[GBL].syms[t].kind = "type"
            /\ blocks[GBL].syms[t].Methods # EmptyMap
            /\ blocks[GBL].syms[t].declared

\* NewPackage of a package "main" has looked for the entry point.
EntryTried ==
    /\ pkgName = "main"
    /\ \/ pc \in {"drain", "done", "error"}
       \/ pc = "panic" /\ fatal # <<>> /\ fatal[1] = "find"

NothingLowered == \A f \in FuncNames : nlow[f] = 0

\* C11: when NewPackage of a package "main" that declares no function main has
\* looked for the entry point, it has returned ErrMainFuncNotFound as an error
\* value and lowered no body; this for every set of files, the empty one and
\* files that import under the name main included.
MainMissingReported ==
    (EntryTried /\ ~IsFunc(blocks, "main"))
        => (pc = "error" /\ ret.err = ErrMainFuncNotFound /\ NothingLowered)

\* C12: when NewPackage of a package "main" that declares main as a top-level
\* variable and not as a function has looked for the entry point, it has
\* returned ErrSymbolNotFunc.
MainVarMismatch ==
    (EntryTried /\ "main" \in vdecls /\ ~IsFunc(blocks, "main"))
        => (pc = "error" /\ ret.err = ErrSymbolNotFunc)

\* C13: in a package that is not "main" no body is ever lowered, usedfns stays
\* empty and no funcDecl is marked used, and the symbol map NewPackage returns
\* binds every function without receiver declared in any file.
LibraryNotLowered ==
    pkgName # "main" =>
        /\ NothingLowered
        /\ usedfns = <<>>
        /\ pc \notin {"drain", "error"}
        /\ \A f \in FuncNames : napp[f] = 0 /\ (IsFunc(blocks, f) => ~FuncOf(blocks, f).used)
        /\ pc = "done" =>
              /\ ret.err = "nil"
              /\ \A d \in decl :
                    d[3] = "func" => /\ d[2] \in DOMAIN ret.syms
                                     /\ ret.syms[d[2]].kind = "func"
                                     /\ ~ret.syms[d[2]].used

\* NewPackage returned for a package "lib" with functions in two files, one of
\* them main, and a function whose body calls a declared function.
LibraryNotLoweredWitness ==
    /\ pkgName = "lib"
    /\ pc = "done"
    /\ FuncsOfFile(1) # {} /\ FuncsOfFile(2) # {}
    /\ IsFunc(blocks, "main")
    /\ \E f \in FuncNames : IsFunc(blocks, f) /\ Callees(f) # {}
    /\ \A f \in FuncsOfFile(1) \cup FuncsOfFile(2) : f \in DOMAIN ret.syms

\* C14: with an error that is not nil NewPackage returns a Package without
\* global variables and without symbols, whatever the package scope holds.
ErrorReturnsNothing ==
    /\ pc = "error" <=> ret.err \in {ErrMainFuncNotFound, ErrSymbolNotFunc}
    /\ ret.err \notin {"none", "nil"} => (ret.vlist = <<>> /\ ret.syms = EmptyMap)

\* NewPackage returned the kind-mismatch error while the package scope held a function.
ErrorReturnsNothingWitness ==
    /\ pc = "error"
    /\ ret.err = ErrSymbolNotFunc
    /\ \E f \in FuncNames : IsFunc(blocks, f)
    /\ ret.syms = EmptyMap

RECURSIVE Chain(_, _)
\* The blockCtxs from b outwards, innermost first.
Chain(blks, b) == IF b = Nil THEN <<>> ELSE <<b>> \o Chain(blks, blks[b].parent)

LookupNames == VarNames \cup TypeNames

\* The typed lookup for symbols of kind k, and its kind-mismatch error.
Lookup(k, b, n) ==
    CASE k = "var" -> findVar(blocks, files, b, n)
      [] k = "func" -> findFunc(blocks, files, b, n)
      [] k = "type" -> findType(blocks, files, b, n)

KindErr(k) ==
    CASE k = "var" -> ErrSymbolNotVariable
      [] k = "func" -> ErrSymbolNotFunc
      [] k = "type" -> ErrSymbolNotType

\* The typed lookups from blockCtx b for name n answer as the bindings say.
TypedLookupsAt(b, n) ==
    LET ch == Chain(blocks, b)
        hits == {i \in DOMAIN ch : n \in DOMAIN blocks[ch[i]].syms}
        imported == n \in DOMAIN files[blocks[b].file]
        absent == hits = {} /\ ~imported
        first == CHOOSE i \in hits : \A j \in hits : i <= j
        sym == IF hits # {} THEN blocks[ch[first]].syms[n]
               ELSE ImportSym(files[blocks[b].file][n])
    IN  \A k \in {"var", "func", "type"} :
            LET r == Lookup(k, b, n) IN
            /\ r.err \in {ErrNotFound, KindErr(k), "nil"}
            /\ r.err = ErrNotFound <=> absent
            /\ r.err = KindErr(k) <=> (~absent /\ sym.kind # k)
            /\ r.err = "nil" <=> (~absent /\ sym.kind = k)
            /\ r.err = "nil" => r.sym = sym
            /\ r.err # "nil" => r.sym = Nil

\* C15: from every blockCtx b and for every name, findVar, findFunc and findType
\* give ErrNotFound exactly when no blockCtx from b outwards binds the name and
\* the imports of b's file do not either; give their own kind-mismatch error
\* exactly when the innermost binding (or, without one, the import) is of another
\* kind; and give that binding otherwise.  The lookups are functions of the
\* scope chain and the imports and write nothing.
TypedLookups == \A b \in 1..Len(blocks), n \in LookupNames \cup {"main"} : TypedLookupsAt(b, n)

\* The same for the blockCtxs that own a file.
TypedLookupsInFile ==
    \A b \in 1..Len(blocks), n \in LookupNames :
        blocks[b].file # Nil => TypedLookupsAt(b, n)

\* The file in which main was declared.
MainFile == FuncOf(blocks, "main").file

\* C16: once NewPackage has found main and lowers its body, the global blockCtx
\* is owned by the file that declared main, so a name that no blockCtx binds
\* resolves against the imports of that file, whichever file was loaded last.
MainFileImports ==
    (pkgName = "main" /\ pc \in {"drain", "done"}) =>
        /\ IsFunc(blocks, "main")
        /\ blocks[GBL].file = MainFile
        /\ \A n \in FuncNames :
              n \notin DOMAIN blocks[GBL].syms =>
                  find(blocks, files, GBL, n) =
                      IF n \in DOMAIN files[MainFile]
                      THEN [ok |-> "true", sym |-> ImportSym(files[MainFile][n])]
                      ELSE [ok |-> "false", sym |-> Nil]

\* main was declared in the first of two files and its body, now lowered, names
\* something that only the file loaded last imports.
MainFileImportsWitness ==
    /\ pkgName = "main"
    /\ pc \in {"drain", "done"}
    /\ Len(files) = 2
    /\ MainFile = 1
    /\ nlow["main"] >= 1
    /\ \E n \in Range(FuncOf(blocks, "main").body) :
          /\ n \notin DOMAIN blocks[GBL].syms
          /\ n \in DOMAIN files[2]
          /\ n \notin DOMAIN files[1]
          /\ find(blocks, files, GBL, n).ok = "false"

\* C17: a turn of resolveFuncs lowers the funcDecl appended last among those in
\* usedfns and no other, keeps the earlier ones in usedfns in their order, and
\* puts what the lowering appends after them, so that it is lowered before them.
LifoDrain ==
    [][(pc \in {"drain", "sched"} /\ nlow' # nlow) =>
          LET n == Len(usedfns) IN
          /\ n > 0
          /\ nlow'[usedfns[n]] = Inc(nlow[usedfns[n]])
          /\ \A g \in FuncNames \ {usedfns[n]} : nlow'[g] = nlow[g]
          /\ Len(usedfns') >= n - 1
          /\ SubSeq(usedfns', 1, n - 1) = SubSeq(usedfns, 1, n - 1)
          /\ \A i \in n..Len(usedfns') : napp'[usedfns'[i]] = Inc(napp[usedfns'[i]])]_vars

\* Of two functions in usedfns the one appended last was lowered, and its callee
\* now stands in usedfns behind the one appended first, which still waits.
LifoDrainWitness ==
    /\ pc = "sched"
    /\ Len(usedfns) = 2
    /\ nlow[usedfns[1]] = 0 /\ nlow[usedfns[2]] = 0
    /\ \E g \in FuncNames \ Range(usedfns) :
          /\ IsFunc(blocks, g)
          /\ nlow[g] = 1
          /\ Callees(g) = {usedfns[2]}
    /\ \A f \in FuncNames : IsFunc(blocks, f) => usedfns[1] \notin Callees(f)

\* C20: every funcDecl in usedfns is marked used, none stands in usedfns twice,
\* and one that a turn of resolveFuncs has taken off usedfns never stands in it again.
WorklistSound ==
    /\ [](\A i \in DOMAIN usedfns :
            /\ IsFunc(blocks, usedfns[i])
            /\ FuncOf(blocks, usedfns[i]).used
            /\ \A j \in DOMAIN usedfns : usedfns[j] = usedfns[i] => j = i)
    /\ [][\A f \in FuncNames :
            (napp[f] >= 1 /\ f \notin Range(usedfns)) => f \notin Range(usedfns')]_vars

\* A function that calls itself was taken off usedfns and lowered, so that use
\* was called on it after it had left usedfns, and it is not in usedfns.
WorklistSoundWitness ==
    /\ pkgName = "main"
    /\ pc \in {"drain", "done"}
    /\ \E f \in FuncNames :
          /\ IsFunc(blocks, f)
          /\ f \in Callees(f)
          /\ napp[f] = 1
          /\ nlow[f] >= 1
          /\ nuse[f] >= 2
          /\ f \notin Range(usedfns)

\* The global blockCtx as the loader leaves it when fl is the file loaded last
\* (loadFile, line 248); the symbol map and the imports maps do not depend on
\* the order of the files.
LoadedLast(fl) == [blocks EXCEPT ![GBL].file = fl]

\* What NewPackage of a package "main" returns as err after loading fl last.
EntryErr(fl) ==
    LET entry == findFunc(LoadedLast(fl), files, GBL, "main") IN
    IF entry.err = ErrNotFound THEN ErrMainFuncNotFound ELSE entry.err

\* C18: the error NewPackage returns for the loaded files (nil included) is the
\* same whichever of them was loaded last, and so for every order of the files.
FileOrderIrrelevant ==
    (pkgName = "main" /\ pc = "load") =>
        \A fl1 \in 1..Len(files), fl2 \in 1..Len(files) : EntryErr(fl1) = EntryErr(fl2)

\* C19: no name is bound both by an import of a file and by a function without
\* receiver declared in that file: the second of the two declarations, whichever
\* it is, has stopped the run.
NoImportClash ==
    \A fl \in 1..Len(files) : DOMAIN files[fl] \cap FuncsOfFile(fl) = {}

====
